---- MODULE Spec2Model ----
(***************************************************************************)
(* A model of the report pipeline of the Logistics Compliance App:         *)
(*   backend/services/report_service.py   ReportService.generate_report    *)
(*   backend/agents/validator_agent.py    ValidatorAgent                   *)
(*   backend/agents/report_agent.py       ReportGeneratorAgent             *)
(*   backend/agents/search_agent.py       SearchAgent                      *)
(*   backend/agents/search_agent_mcp.py   MCPSearchAgent                   *)
(*                                                                         *)
(* Python values of more than one type are records with a field t naming   *)
(* the type, so that a None, a dict and a list can be told apart.          *)
(***************************************************************************)
EXTENDS Integers, Sequences, FiniteSets, TLC

(***************************************************************************)
(* Bounds of the model.                                                    *)
(***************************************************************************)
\* the largest configured MAX_VALIDATION_ITERATIONS that is explored
MaxIterations == 3
\* the longest list of derived queries below the cap, and the number of
\* lookups whose answers are chosen one by one
MaxQueries == 4
\* the longest list of results parsed from an MCP search, before its cap
MaxMcpResults == 17

(***************************************************************************)
(* Python values.                                                          *)
(***************************************************************************)
NoneV == [t |-> "None"]
Str(s) == [t |-> "str", s |-> s]
Num(n) == [t |-> "num", n |-> n]
Bool(b) == [t |-> "bool", b |-> b]

\* Python truthiness of the values the pipeline tests with `if`, `or`, `not`
Truthy(v) ==
    CASE v.t = "None" -> FALSE
      [] v.t = "bool" -> v.b
      [] v.t = "num"  -> v.n # 0
      [] v.t = "str"  -> v.s # ""
      [] v.t = "list" -> v.len > 0
      [] v.t = "dict" -> DOMAIN v.d # {}
      [] OTHER        -> TRUE

(***************************************************************************)
(* API keys.  A key is None or a string; the strings that matter are the   *)
(* empty one, a blank one, one without the "sk-ant-" prefix and well-formed*)
(* ones, with and without surrounding white space.                         *)
(***************************************************************************)
KeyStrings == {"", " ", "abc", "sk-ant-A", " sk-ant-A ", "sk-ant-B"}
Keys == {NoneV} \cup {Str(s) : s \in KeyStrings}

\* str.strip() on the key strings
StripKey(s) ==
    CASE s = " "          -> ""
      [] s = " sk-ant-A " -> "sk-ant-A"
      [] OTHER            -> s

\* str.startswith("sk-ant-") on the (stripped) key strings
StartsWithSkAnt(s) == s \in {"sk-ant-A", "sk-ant-B"}

\* what Settings.__init__ can leave in settings.ANTHROPIC_API_KEY: an empty or
\* blank value has been normalised to None
SettingsKeys == {NoneV, Str("abc"), Str("sk-ant-A")}

(***************************************************************************)
(* The text of an LLM response.  A text is a sequence of tokens: a code    *)
(* fence (three backquotes), the word json, white space, other prose, or   *)
(* the text of one JSON value.  The agents' text handling (strip,          *)
(* startswith, split, json.loads) is modelled on these tokens.             *)
(***************************************************************************)
Fence == [t |-> "fence"]
JsonWord == [t |-> "jsonword"]
Ws == [t |-> "ws"]
Prose == [t |-> "prose"]
J(v) == [t |-> "json", v |-> v]

RECURSIVE LStrip(_)
LStrip(s) == IF s # <<>> /\ s[1] = Ws THEN LStrip(Tail(s)) ELSE s

RECURSIVE RStrip(_)
RStrip(s) == IF s # <<>> /\ s[Len(s)] = Ws THEN RStrip(SubSeq(s, 1, Len(s) - 1)) ELSE s

\* str.strip()
Strip(s) == RStrip(LStrip(s))

\* str.startswith(tok)
StartsWith(s, tok) == s # <<>> /\ s[1] = tok

RECURSIVE UntilFence(_)
UntilFence(s) ==
    IF s = <<>> \/ s[1] = Fence THEN <<>> ELSE <<s[1]>> \o UntilFence(Tail(s))

\* content.split(fence)[1] for a content that starts with a fence: the text
\* between the first fence and the next one (or the end)
SplitFence1(s) == UntilFence(Tail(s))

\* json.loads: the text must be exactly one JSON value, white space around it
\* allowed; anything else raises JSONDecodeError
json_loads(s) ==
    LET c == Strip(s)
    IN  IF Len(c) = 1 /\ c[1].t = "json"
        THEN [ok |-> TRUE, v |-> c[1].v]
        ELSE [ok |-> FALSE, v |-> NoneV]

\* "Remove markdown code blocks if present", then json.loads
\* (validator_agent.py 143-149, report_agent.py 214-220)
ExtractJson(content) ==
    LET inner == SplitFence1(content)
        noword == IF StartsWith(inner, JsonWord) THEN Tail(inner) ELSE inner
    IN  IF StartsWith(content, Fence)
        THEN json_loads(Strip(noword))
        ELSE json_loads(content)

\* the outcome of client.messages.create(...) followed by
\* response.content[0].text: the call (or the indexing) raises, or a text
CallRaises == [t |-> "raise"]
Text(s) == [t |-> "text", text |-> s]

\* a Python dict is a function from its keys
Dict(f) == [t |-> "dict", d |-> f]
List(n) == [t |-> "list", len |-> n]
EmptyDict == Dict([k \in {} |-> NoneV])

\* dict.setdefault(k, v), as a new dict
setdefault(f, k, v) == IF k \in DOMAIN f THEN f ELSE f @@ (k :> v)

\* dict.get(k, default)
get(f, k, default) == IF k \in DOMAIN f THEN f[k] ELSE default

\* the result of a call that returns a value or raises
Return(v) == [raised |-> FALSE, v |-> v]
Raise(e) == [raised |-> TRUE, v |-> Str(e)]

(***************************************************************************)
(* ValidatorAgent (validator_agent.py).                                    *)
(***************************************************************************)
\* ParseFallbackVerdict with the score and feedback of the other fail-open path
ParseFallbackScoreZero ==
    ("is_approved" :> Bool(TRUE)) @@ ("quality_score" :> Num(0))
    @@ ("feedback" :> Str("Validation skipped due to error"))
    @@ ("issues" :> List(0))

\* the verdict returned when the judge's text cannot be parsed (159-167)
ParseFallbackVerdict ==
    ("is_approved" :> Bool(TRUE)) @@ ("quality_score" :> Num(80))
    @@ ("feedback" :> Str("Report meets quality standards"))
    @@ ("issues" :> List(0))

\* "Approve if quality_score >= 50", an instruction of the judge's prompt
ApprovalThreshold == 50

\* validate_report deciding is_approved itself, by the threshold
ValidateWithThreshold(resp) ==
    IF resp.t = "raise" THEN Raise("judge call failed")
    ELSE LET parsed == ExtractJson(Strip(resp.text))
         IN  IF ~parsed.ok THEN Return(Dict(ParseFallbackVerdict))
             ELSE IF parsed.v.t # "dict"
                  THEN Raise("AttributeError: no attribute setdefault")
                  ELSE Return(Dict(
                         setdefault(
                           setdefault(
                             setdefault(
                               ("is_approved" :>
                                   Bool(get(parsed.v.d, "quality_score", Num(0)).n
                                          >= ApprovalThreshold))
                               @@ parsed.v.d,
                               "quality_score", Num(0)),
                             "feedback", Str("Validation incomplete")),
                           "issues", List(0))))

\* ValidatorAgent._validate_report from the judge call on (133-167)
validate_report(resp) ==
    IF resp.t = "raise" THEN Raise("judge call failed")
    ELSE LET parsed == ExtractJson(Strip(resp.text))
         IN  IF ~parsed.ok THEN Return(Dict(ParseFallbackVerdict))
             ELSE IF parsed.v.t # "dict"
                  THEN Raise("AttributeError: no attribute setdefault")
                  ELSE Return(Dict(
                         setdefault(
                           setdefault(
                             setdefault(
                               setdefault(parsed.v.d, "is_approved", Bool(FALSE)),
                               "quality_score", Num(0)),
                             "feedback", Str("Validation incomplete")),
                           "issues", List(0))))

\* the verdict returned when validation raised (72-80)
FailOpenVerdict ==
    ("success" :> Bool(TRUE)) @@ ("is_approved" :> Bool(TRUE))
    @@ ("feedback" :> Str("Validation skipped due to error"))
    @@ ("quality_score" :> Num(0))

\* x[:100] raises TypeError unless x is a string or a list
Sliceable(v) == v.t \in {"str", "list"}

\* ValidatorAgent.execute (54-80): the returned dict
ValidatorAgent_execute(resp) ==
    LET r == validate_report(resp)
    IN  IF r.raised THEN FailOpenVerdict
        ELSE IF ~Truthy(r.v.d["is_approved"]) /\ ~Sliceable(r.v.d["feedback"])
             THEN FailOpenVerdict
             ELSE r.v.d @@ ("success" :> Bool(TRUE))

(***************************************************************************)
(* ReportGeneratorAgent (report_agent.py).                                 *)
(***************************************************************************)
RiskLevels == {"critical", "high", "medium", "low"}
Sections == {"summary", "legal_changes", "route_impacts", "recommended_actions"}

\* a summary object and a list of entries, each with the risk levels it uses
Summary(n, risk) == Dict(("total_changes" :> Num(n)) @@ ("overall_risk" :> Str(risk)))
Entries(n, risks) == [t |-> "list", len |-> n, risks |-> risks]

\* "Return a minimal valid report" (227-237)
MinimalReport ==
    Dict(("summary" :> Summary(0, "medium"))
         @@ ("legal_changes" :> Entries(0, {}))
         @@ ("route_impacts" :> Entries(0, {}))
         @@ ("recommended_actions" :> Entries(0, {})))

\* the feedback section of the prompt (69-77): present only for a truthy feedback
FeedbackSection(previous_feedback) ==
    IF Truthy(previous_feedback) THEN previous_feedback ELSE Str("")

\* ReportGeneratorAgent._generate_report from the LLM call on (203-237)
generate_report_content(resp) ==
    IF resp.t = "raise" THEN Raise("generator call failed")
    ELSE LET parsed == ExtractJson(Strip(resp.text))
         IN  IF parsed.ok THEN Return(parsed.v) ELSE Return(MinimalReport)

\* ReportGeneratorAgent_execute answering a raised call with the minimal report
ExecuteWithFallbackDraft(resp) ==
    LET r == generate_report_content(resp)
    IN  [success |-> TRUE, error |-> NoneV,
         report |-> IF r.raised THEN MinimalReport ELSE r.v]

\* ReportGeneratorAgent.execute (39-59)
ReportGeneratorAgent_execute(resp) ==
    LET r == generate_report_content(resp)
    IN  IF r.raised
        THEN [success |-> FALSE, error |-> r.v, report |-> NoneV]
        ELSE [success |-> TRUE, error |-> NoneV, report |-> r.v]

(***************************************************************************)
(* Construction of the agents.                                             *)
(***************************************************************************)
\* the keyword parameters each __init__ declares besides self
SearchAgentParams == {}
ReportGeneratorAgentParams == {}
ValidatorAgentParams == {"api_key"}
MCPSearchAgentParams == {"api_key"}

\* a call with keyword arguments kw of a function that declares params
\* raises TypeError when it is given a keyword it does not declare
AcceptsCall(params, kw) == kw \subseteq params

\* claude_agent_sdk imported (search_agent_mcp.py 11-25), and with it the
\* module itself (report_service.py 13-17)
CLAUDE_SDK_AVAILABLE == TRUE
MCP_AGENT_AVAILABLE == TRUE

\* the key checks shared by ValidatorAgent.__init__ (22-30) and
\* MCPSearchAgent.__init__ (47-55): "ok" or the error raised
CheckKey(api_key, settings_key) ==
    LET effective == IF Truthy(api_key) THEN api_key ELSE settings_key
    IN  IF ~Truthy(effective) \/ StripKey(effective.s) = ""
        THEN "ValueError: API key is required"
        ELSE IF ~StartsWithSkAnt(StripKey(effective.s))
             THEN "ValueError: Invalid API key format"
             ELSE "ok"

\* SearchAgent(api_key=...)
SearchAgent_init(kw) ==
    IF AcceptsCall(SearchAgentParams, kw) THEN "ok"
    ELSE "TypeError: SearchAgent.__init__() got an unexpected keyword argument"

\* ReportGeneratorAgent(api_key=...)
ReportGeneratorAgent_init(kw) ==
    IF AcceptsCall(ReportGeneratorAgentParams, kw) THEN "ok"
    ELSE "TypeError: ReportGeneratorAgent.__init__() got an unexpected keyword argument"

\* ValidatorAgent(api_key=...)
ValidatorAgent_init(kw, api_key, settings_key) ==
    IF ~AcceptsCall(ValidatorAgentParams, kw)
    THEN "TypeError: ValidatorAgent.__init__() got an unexpected keyword argument"
    ELSE CheckKey(api_key, settings_key)

\* MCPSearchAgent(api_key=...)
MCPSearchAgent_init(kw, api_key, settings_key) ==
    IF ~AcceptsCall(MCPSearchAgentParams, kw)
    THEN "TypeError: MCPSearchAgent.__init__() got an unexpected keyword argument"
    ELSE IF ~CLAUDE_SDK_AVAILABLE THEN "ImportError: claude-agent-sdk is required"
         ELSE CheckKey(api_key, settings_key)

\* the first "ok"-or-error of a sequence of constructor outcomes that is an error
RECURSIVE FirstError(_)
FirstError(rs) ==
    IF rs = <<>> THEN "ok"
    ELSE IF rs[1] # "ok" THEN rs[1] ELSE FirstError(Tail(rs))

\* generate_report, "Create agents with provided API key" (report_service.py
\* 60-71): "ok" or the message of the first exception raised
CreateAgents(api_key, settings_key, use_mcp_agents, mcp_configured) ==
    FirstError(<<
        IF use_mcp_agents /\ MCP_AGENT_AVAILABLE /\ mcp_configured
        THEN MCPSearchAgent_init({"api_key"}, api_key, settings_key)
        ELSE SearchAgent_init({"api_key"}),
        ReportGeneratorAgent_init({"api_key"}),
        ValidatorAgent_init({"api_key"}, api_key, settings_key) >>)

(***************************************************************************)
(* One run of ReportService.generate_report (report_service.py 36-267).    *)
(*                                                                         *)
(* env is what the run is given and what its collaborators will answer:    *)
(* the caller's api_key, the settings, the result of search_agent.execute, *)
(* the LLM's answer to the k-th generator call and to the k-th judge call, *)
(* and the commit steps (file writes, vector store, PDF) that raise.       *)
(***************************************************************************)
VARIABLES
    env,                \* the run's inputs and its collaborators' answers
    pc,                 \* where generate_report is
    iteration_count,    \* report_service.py 57
    validation_history, \* report_service.py 58
    previous_feedback,  \* report_service.py 89
    report_content,     \* report_service.py 88
    search_results,     \* report_service.py 80
    final_report,       \* report_service.py 142
    err,                \* str(e) of the exception being handled
    store,              \* the content of REPORTS_DIR/<report_id>.json
    writes,             \* how many times that file has been written
    result,             \* what generate_report returned
    calls,              \* the calls made to the three agents' execute
    environ,            \* os.environ.get('ANTHROPIC_API_KEY') of the process
    tasks               \* the coroutines of MCPSearchAgent._execute_mcp_search

vars == << env, pc, iteration_count, validation_history, previous_feedback,
           report_content, search_results, final_report, err, store, writes,
           result, calls, environ, tasks >>

\* the texts of the feedback the judge writes in round k
FeedbackText(k) == << "fb1", "fb2", "fb3", "fb4", "fb5", "fb6" >>[k]

\* a complete Draft, as the LLM writes it in round k
GoodDraft(k) ==
    Dict(("summary" :> Summary(k, "high"))
         @@ ("legal_changes" :> Entries(k, {"high", "low"}))
         @@ ("route_impacts" :> Entries(1, {"medium"}))
         @@ ("recommended_actions" :> Entries(1, {"critical"})))

\* the LLM's answer to the k-th generator call, by kind
GenKinds == {"draft", "garbage", "list", "raise"}
GenResponse(kind, k) ==
    CASE kind = "draft"   -> Text(<< Fence, JsonWord, Ws, J(GoodDraft(k)), Ws, Fence >>)
      [] kind = "garbage" -> Text(<< Prose >>)
      [] kind = "list"    -> Text(<< J(List(0)) >>)
      [] OTHER            -> CallRaises

\* the judge's answer to the k-th validate call, by kind
JudgeKinds == {"approve", "reject", "garbage", "raise"}
JudgeResponse(kind, k) ==
    CASE kind = "approve" ->
           Text(<< J(Dict(("is_approved" :> Bool(TRUE)) @@ ("quality_score" :> Num(80))
                          @@ ("feedback" :> Str("Report meets quality standards"))
                          @@ ("issues" :> List(0)))) >>)
      [] kind = "reject" ->
           Text(<< J(Dict(("is_approved" :> Bool(FALSE)) @@ ("quality_score" :> Num(30))
                          @@ ("feedback" :> Str(FeedbackText(k)))
                          @@ ("issues" :> List(2)))) >>)
      [] kind = "garbage" -> Text(<< Prose >>)
      [] OTHER -> CallRaises

\* what search_agent.execute answers
Evidence(n) == [t |-> "list", len |-> n]
GatherResults ==
    { Return([success |-> FALSE, error |-> Str("search error"), search_results |-> Evidence(0)]),
      Return([success |-> TRUE, error |-> NoneV, search_results |-> Evidence(0)]),
      Return([success |-> TRUE, error |-> NoneV, search_results |-> Evidence(2)]),
      Raise("TypeError: SearchAgent.__init__() got an unexpected keyword argument") }

\* the steps outside the three agents that can raise
CommitSteps == {"index", "write", "add_report", "pdf", "add_pdf", "failed_write"}

\* a script decides nothing after the entry that ends the run
CanonJudges(js) ==
    \A i, j \in DOMAIN js : i < j /\ js[i] # "reject" => js[j] = "approve"
CanonGens(gs) ==
    \A i, j \in DOMAIN gs : i < j /\ gs[i] \in {"raise"} => gs[j] = "draft"

Scripts(kinds, n) == [1..n -> kinds]

NoRecord == [status |-> "absent"]
NoResult == NoneV

\* the locals of generate_report as lines 56-58 leave them
InitLocals ==
    /\ iteration_count = 0
    /\ validation_history = << >>
    /\ previous_feedback = NoneV
    /\ report_content = NoneV
    /\ search_results = NoneV
    /\ final_report = NoneV
    /\ err = ""
    /\ store = NoRecord
    /\ writes = 0
    /\ result = NoResult
    /\ calls = [gather |-> 0, generate |-> << >>, validate |-> << >>]
    /\ environ = NoneV
    /\ tasks = << >>

\* raise: control passes to the except clause at line 242
Throw(msg) == pc' = "except" /\ err' = msg

\* lines 60-71
Setup ==
    /\ pc = "setup"
    /\ LET e == CreateAgents(env.api_key, env.settings_key,
                             env.use_mcp_agents, env.mcp_configured)
       IN  IF e = "ok" THEN pc' = "gather" /\ err' = err ELSE Throw(e)
    /\ UNCHANGED << environ, tasks >>
    /\ UNCHANGED << env, iteration_count, validation_history, previous_feedback,
                    report_content, search_results, final_report, store, writes,
                    result, calls >>

\* the test of the while loop at line 92
LoopTest(count) == IF count < env.max_iterations THEN "generate" ELSE "finalize"

\* lines 73-92: the search phase, up to the first test of the loop
Gather ==
    /\ pc = "gather"
    /\ calls' = [calls EXCEPT !.gather = @ + 1]
    /\ LET r == env.gather
       IN  IF r.raised
           THEN Throw(r.v.s) /\ search_results' = search_results
           ELSE IF ~r.v.success
                THEN Throw("Search failed") /\ search_results' = search_results
                ELSE /\ search_results' = r.v.search_results
                     /\ IF "index" \in env.fails
                        THEN Throw("add_search_results failed")
                        ELSE pc' = LoopTest(iteration_count) /\ err' = err
    /\ UNCHANGED << environ, tasks >>
    /\ UNCHANGED << env, iteration_count, validation_history, previous_feedback,
                    report_content, final_report, store, writes, result >>

\* lines 103-106: a generator result without success raises, another one
\* goes on to validation
AfterGenerate(rr) == IF ~rr.success THEN "except" ELSE "validate"

\* lines 93-106: one generate call
Generate ==
    /\ pc = "generate"
    /\ iteration_count' = iteration_count + 1
    /\ calls' = [calls EXCEPT !.generate = Append(@, previous_feedback)]
    /\ LET rr == ReportGeneratorAgent_execute(
                    GenResponse(env.gens[iteration_count'], iteration_count'))
       IN  IF AfterGenerate(rr) = "except"
           THEN Throw("Report generation failed") /\ report_content' = report_content
           ELSE pc' = "validate" /\ err' = err /\ report_content' = rr.report
    /\ UNCHANGED << environ, tasks >>
    /\ UNCHANGED << env, validation_history, previous_feedback, search_results,
                    final_report, store, writes, result >>

\* ValidationEntry with every entry tagged as the first round's
ValidationEntryUntagged(count, vr) ==
    [ iteration |-> 1,
      is_approved |-> get(vr, "is_approved", Bool(FALSE)),
      quality_score |-> get(vr, "quality_score", Num(0)),
      feedback |-> get(vr, "feedback", Str("")),
      issues |-> get(vr, "issues", List(0)) ]

\* lines 117-124
ValidationEntry(count, vr) ==
    [ iteration |-> count,
      is_approved |-> get(vr, "is_approved", Bool(FALSE)),
      quality_score |-> get(vr, "quality_score", Num(0)),
      feedback |-> get(vr, "feedback", Str("")),
      issues |-> get(vr, "issues", List(0)) ]

\* NextFeedback keeping the feedback of the first rejection
NextFeedbackKeepFirst(vr, previous) ==
    IF previous = NoneV THEN get(vr, "feedback", Str("")) ELSE previous

\* line 133: the feedback the next generate call is given
NextFeedback(vr, previous) == get(vr, "feedback", Str(""))

\* AfterValidate without the break on approval of lines 128-130
AfterValidateNoBreak(approved, count) ==
    IF count >= env.max_iterations THEN "finalize" ELSE LoopTest(count)

\* lines 128-139 and the loop test that follows them: break on approval, break
\* when the iterations are used up, another round otherwise
AfterValidate(approved, count) ==
    IF approved THEN "finalize"
    ELSE IF count >= env.max_iterations THEN "finalize"
         ELSE LoopTest(count)

\* lines 108-139: one validate call and the decision that follows it
Validate ==
    /\ pc = "validate"
    /\ calls' = [calls EXCEPT !.validate = Append(@, report_content)]
    /\ LET vr == ValidatorAgent_execute(
                    JudgeResponse(env.judges[iteration_count], iteration_count))
       IN  /\ validation_history' =
                Append(validation_history, ValidationEntry(iteration_count, vr))
           /\ previous_feedback' =
                IF Truthy(get(vr, "is_approved", Bool(FALSE)))
                THEN previous_feedback
                ELSE NextFeedback(vr, previous_feedback)
           /\ pc' = AfterValidate(Truthy(get(vr, "is_approved", Bool(FALSE))),
                                  iteration_count)
    /\ UNCHANGED << environ, tasks >>
    /\ UNCHANGED << env, iteration_count, report_content, search_results,
                    final_report, err, store, writes, result >>

\* FinalReport holding the minimal report instead of the run's Draft
FinalReportOtherContent(content, history, count, sources) ==
    [ id |-> "report_id",
      status |-> "approved",
      content |-> MinimalReport,
      validation_history |-> history,
      iteration_count |-> count,
      total_sources |-> sources.len ]

\* lines 142-154
FinalReport(content, history, count, sources) ==
    [ id |-> "report_id",
      status |-> "approved",
      content |-> content,
      validation_history |-> history,
      iteration_count |-> count,
      total_sources |-> sources.len ]

\* lines 141-161: build the final report and write it to the report's file
Finalize ==
    /\ pc = "finalize"
    /\ final_report' = FinalReport(report_content, validation_history,
                                   iteration_count, search_results)
    /\ IF "write" \in env.fails
       THEN Throw("cannot write the report") /\ UNCHANGED << store, writes >>
       ELSE /\ store' = final_report'
            /\ writes' = writes + 1
            /\ pc' = "add_report"
            /\ err' = err
    /\ UNCHANGED << environ, tasks >>
    /\ UNCHANGED << env, iteration_count, validation_history, previous_feedback,
                    report_content, search_results, result, calls >>

\* report_content.get("summary", {}).get("overall_risk", "medium") (line 173)
\* raises AttributeError unless the content and its summary are dicts
OverallRiskReadable(content) ==
    /\ content.t = "dict"
    /\ get(content.d, "summary", EmptyDict).t = "dict"

\* lines 163-177: index the report for semantic search
AddReport ==
    /\ pc = "add_report"
    /\ IF ~OverallRiskReadable(report_content)
       THEN Throw("AttributeError: object has no attribute get")
       ELSE IF "add_report" \in env.fails
            THEN Throw("add_report failed")
            ELSE pc' = "pdf" /\ err' = err
    /\ UNCHANGED << environ, tasks >>
    /\ UNCHANGED << env, iteration_count, validation_history, previous_feedback,
                    report_content, search_results, final_report, store, writes,
                    result, calls >>

\* the steps of the PDF part: rendering the file (lines 184-194) and storing
\* its metadata (lines 199-216)
PdfSteps == {"pdf", "add_pdf"}

\* Pdf with a failure of its steps passed on to the except clause of line 242
PdfFailureRaises ==
    /\ pc = "pdf"
    /\ IF env.fails \cap PdfSteps # {}
       THEN Throw("PDF generation failed") /\ final_report' = final_report
       ELSE /\ final_report' = final_report @@ ("pdf_path" :> Str("pdfs/report_id.pdf"))
                                            @@ ("has_pdf" :> TRUE)
            /\ pc' = "return"
            /\ err' = err
    /\ UNCHANGED << environ, tasks >>
    /\ UNCHANGED << env, iteration_count, validation_history, previous_feedback,
                    report_content, search_results, store, writes, result,
                    calls >>

\* lines 179-227: render the PDF and store its metadata; a failure of either
\* is caught at line 224
Pdf ==
    /\ pc = "pdf"
    /\ final_report' =
         IF env.fails \cap PdfSteps # {}
         THEN final_report @@ ("pdf_path" :> NoneV) @@ ("has_pdf" :> FALSE)
         ELSE final_report @@ ("pdf_path" :> Str("pdfs/report_id.pdf")) @@ ("has_pdf" :> TRUE)
    /\ pc' = "return"
    /\ UNCHANGED << environ, tasks >>
    /\ UNCHANGED << env, iteration_count, validation_history, previous_feedback,
                    report_content, search_results, err, store, writes, result,
                    calls >>

\* ReturnReport reporting the approved record as a failure
ReturnReportAsFailure ==
    /\ pc = "return"
    /\ result' = [success |-> FALSE, report |-> final_report]
    /\ pc' = "done"
    /\ UNCHANGED << environ, tasks >>
    /\ UNCHANGED << env, iteration_count, validation_history, previous_feedback,
                    report_content, search_results, final_report, err, store,
                    writes, calls >>

\* lines 229-240
ReturnReport ==
    /\ pc = "return"
    /\ result' = [success |-> TRUE, report |-> final_report]
    /\ pc' = "done"
    /\ UNCHANGED << environ, tasks >>
    /\ UNCHANGED << env, iteration_count, validation_history, previous_feedback,
                    report_content, search_results, final_report, err, store,
                    writes, calls >>

\* FailedReport without the message of the exception
FailedReportNoError ==
    [ id |-> "report_id",
      status |-> "failed",
      error |-> "",
      iteration_count |-> iteration_count,
      validation_history |-> validation_history ]

\* FailedReport counting the round that was not started
FailedReportCountPlusOne ==
    [ id |-> "report_id",
      status |-> "failed",
      error |-> err,
      iteration_count |-> iteration_count + 1,
      validation_history |-> validation_history ]

\* lines 248-257
FailedReport ==
    [ id |-> "report_id",
      status |-> "failed",
      error |-> err,
      iteration_count |-> iteration_count,
      validation_history |-> validation_history ]

\* Except returning to the caller without a result
ExceptSilent ==
    /\ pc = "except"
    /\ pc' = "done"
    /\ UNCHANGED << store, writes, result >>
    /\ UNCHANGED << environ, tasks >>
    /\ UNCHANGED << env, iteration_count, validation_history, previous_feedback,
                    report_content, search_results, final_report, err, calls >>

\* lines 242-267: the except clause.  A write that raises here is not caught:
\* the exception leaves generate_report
Except ==
    /\ pc = "except"
    /\ IF "failed_write" \in env.fails
       THEN pc' = "raised" /\ UNCHANGED << store, writes, result >>
       ELSE /\ store' = FailedReport
            /\ writes' = writes + 1
            /\ result' = [success |-> FALSE, error |-> err, report |-> FailedReport]
            /\ pc' = "done"
    /\ UNCHANGED << environ, tasks >>
    /\ UNCHANGED << env, iteration_count, validation_history, previous_feedback,
                    report_content, search_results, final_report, err, calls >>

(***************************************************************************)
(* The inputs of a run.                                                    *)
(***************************************************************************)
Envs(keys, settingsKeys, gathers, genKinds, judgeKinds, failSets) ==
    { e \in UNION { [ api_key : keys,
                      settings_key : settingsKeys,
                      use_mcp_agents : BOOLEAN,
                      mcp_configured : BOOLEAN,
                      max_iterations : {n},
                      gather : gathers,
                      gens : Scripts(genKinds, n),
                      judges : Scripts(judgeKinds, n),
                      fails : failSets ] : n \in 1..MaxIterations } :
        CanonJudges(e.judges) /\ CanonGens(e.gens) }

(***************************************************************************)
(* Spec: generate_report as the service runs it, from its call on.         *)
(* Every run leaves the agent construction of lines 60-71 by an exception  *)
(* (ReportGeneratorAgent.__init__ declares no api_key parameter), so the   *)
(* steps of lines 73-240 are not steps of this specification.              *)
(***************************************************************************)
Init ==
    /\ env \in Envs(Keys, SettingsKeys, GatherResults, {"draft", "raise"},
                    {"approve", "reject", "raise"}, {{}, {"failed_write"}})
    /\ pc = "setup"
    /\ InitLocals

Next == Setup \/ Except

Spec == Init /\ [][Next]_vars

(***************************************************************************)
(* LoopSpec: lines 73-267 alone, entered with the three agents constructed *)
(* (the state line 73 would be reached in, had the constructors returned). *)
(***************************************************************************)
LoopInit ==
    /\ env \in Envs({Str("sk-ant-A")}, {NoneV}, GatherResults, GenKinds, JudgeKinds,
                    {{}} \cup {{c} : c \in CommitSteps} \cup {{"write", "failed_write"}})
    /\ pc = "gather"
    /\ InitLocals

LoopNext ==
    \/ Gather
    \/ Generate
    \/ Validate
    \/ Finalize
    \/ AddReport
    \/ Pdf
    \/ ReturnReport
    \/ Except

LoopSpec == LoopInit /\ [][LoopNext]_vars

(***************************************************************************)
(* Properties of a run.                                                    *)
(***************************************************************************)
\* generate_report is over: it returned, or an exception left it
Finished == pc \in {"done", "raised"}

\* the status of the returned record
Status == IF pc = "done" THEN result.report.status ELSE "none"

\* a caller-supplied or configured credential that passes the key checks
GoodKey == CheckKey(env.api_key, env.settings_key) = "ok"

GatherSucceeds == ~env.gather.raised /\ env.gather.v.success
GatherFails == ~env.gather.raised /\ ~env.gather.v.success

\* the generator's LLM answers calls 1..n with a complete Draft
DraftsUpTo(n) == \A k \in 1..n : env.gens[k] = "draft"

\* the judge rejects in rounds 1..n-1 and approves in round n
ApprovesAt(n) ==
    /\ \A k \in 1..(n - 1) : env.judges[k] = "reject"
    /\ env.judges[n] = "approve"

\* the run made exactly n generate and n validate calls and ended approved
\* with iteration_count n
ApprovedAfter(n) ==
    /\ Status = "approved"
    /\ result.success
    /\ result.report.iteration_count = n
    /\ Len(calls.generate) = n
    /\ Len(calls.validate) = n

\* C1: for every N <= max_iterations, a run whose judge rejects in rounds
\* 1..N-1 and approves in round N (gatherer and generator succeeding) makes
\* exactly N generate and N validate calls and ends approved with
\* iteration_count N
C1_ApprovedAtRoundN ==
    \A n \in 1..env.max_iterations :
        (Finished /\ GoodKey /\ env.fails = {} /\ GatherSucceeds
            /\ DraftsUpTo(n) /\ ApprovesAt(n))
        => ApprovedAfter(n)

\* C2: a run whose judge rejects in every round makes exactly max_iterations
\* rounds and ends approved with iteration_count and the length of
\* validation_history equal to max_iterations
C2_ExhaustedIsApproved ==
    (Finished /\ GoodKey /\ env.fails = {} /\ GatherSucceeds
        /\ DraftsUpTo(env.max_iterations)
        /\ \A k \in 1..env.max_iterations : env.judges[k] = "reject")
    => /\ ApprovedAfter(env.max_iterations)
       /\ Len(result.report.validation_history) = env.max_iterations

\* C3: a run whose judge call raises in round 1 ends approved after one
\* round, with a single history entry that is approved with score 0, and makes
\* no second generate call
C3_JudgeRaisesRound1 ==
    (Finished /\ GoodKey /\ env.fails = {} /\ GatherSucceeds
        /\ DraftsUpTo(1) /\ env.judges[1] = "raise")
    => /\ ApprovedAfter(1)
       /\ Len(result.report.validation_history) = 1
       /\ result.report.validation_history[1].is_approved = Bool(TRUE)
       /\ result.report.validation_history[1].quality_score = Num(0)

\* C9: a run whose gatherer reports success=false makes no generate and no
\* validate call and ends failed with iteration_count 0 and an empty history;
\* a run whose gatherer reports success=true enters GENERATING, also with
\* empty evidence
C9_GatherDecides ==
    (Finished /\ GoodKey /\ "failed_write" \notin env.fails)
    => /\ GatherFails =>
            /\ calls.generate = << >> /\ calls.validate = << >>
            /\ Status = "failed"
            /\ result.report.iteration_count = 0
            /\ result.report.validation_history = << >>
       /\ GatherSucceeds => Len(calls.generate) >= 1

\* the run ended in the except clause
Failed == Finished /\ err # ""

\* the failed record holds what the run had accumulated and the error
FailedRecordKept ==
    /\ pc = "done"
    /\ writes = 1
    /\ store.status = "failed"
    /\ store.error = err
    /\ store.iteration_count = iteration_count
    /\ store.validation_history = validation_history
    /\ result = [success |-> FALSE, error |-> err, report |-> store]

CallerKeyWellFormed ==
    /\ env.api_key.t = "str"
    /\ env.api_key.s # ""
    /\ StartsWithSkAnt(env.api_key.s)

\* C30: a run started with a well-formed caller-supplied credential gets past
\* agent setup: constructing the three agents with it does not raise and the
\* run reaches the Gatherer invocation; and the MCP gatherer's fallback can
\* construct the standard SearchAgent with the credential
C30_SetupSucceeds ==
    (CallerKeyWellFormed /\ pc # "setup") =>
        /\ err = ""
        /\ pc = "gather"
        /\ SearchAgent_init({"api_key"}) = "ok"

(***************************************************************************)
(* The same statements of the loop alone (LoopSpec).                       *)
(***************************************************************************)
Loop_C1 == C1_ApprovedAtRoundN
Loop_C2 == C2_ExhaustedIsApproved
Loop_C3 == C3_JudgeRaisesRound1

(***************************************************************************)
(* The texts an LLM can answer with: a payload, with or without a code     *)
(* fence, the word json, white space and prose around it.                  *)
(***************************************************************************)
Prefixes == { << >>, << Ws >>, << Fence >>, << Fence, JsonWord >>,
              << Fence, JsonWord, Ws >>, << Fence, Ws, JsonWord, Ws >>,
              << Fence, Prose >>, << Prose >> }
Suffixes == { << >>, << Ws >>, << Fence >>, << Ws, Fence, Ws >>, << Fence, Prose >>,
              << Prose >> }
Texts(values) ==
    { Text(a \o << x >> \o b) :
        a \in Prefixes, b \in Suffixes, x \in {Prose} \cup {J(v) : v \in values} }
    \cup { Text(<< >>), Text(<< Fence >>), Text(<< Fence, JsonWord >>) }

\* the dicts with some of the keys, each key with one of its values
Dicts(keys, vals(_)) ==
    UNION { { Dict(f) : f \in { g \in [K -> UNION { vals(k) : k \in K }] :
                                  \A k \in K : g[k] \in vals(k) } } :
            K \in SUBSET keys }

\* JSON values that are not objects
NonObjects == { List(0), Num(5), NoneV, Str("text"), Bool(TRUE) }

(***************************************************************************)
(* ValidatorSpec: ValidatorAgent.execute applied to every judge answer.    *)
(***************************************************************************)
VerdictKeys == {"is_approved", "quality_score", "feedback", "issues"}
VerdictVals(k) ==
    CASE k = "is_approved"   -> { Bool(TRUE), Bool(FALSE), NoneV }
      [] k = "quality_score" -> { Num(0), Num(30), Num(80) }
      [] k = "feedback"      -> { Str("needs work"), Str(""), NoneV, Num(7) }
      [] OTHER               -> { List(0), List(2) }

JudgeAnswers ==
    {CallRaises} \cup Texts(Dicts(VerdictKeys, VerdictVals) \cup NonObjects)

ValidatorInit ==
    /\ env \in [judge : JudgeAnswers]
    /\ pc = "validator"
    /\ InitLocals

\* validator_agent.execute(...) called with a report, the judge answering env.judge
ValidatorCall ==
    /\ pc = "validator"
    /\ result' = ValidatorAgent_execute(env.judge)
    /\ pc' = "returned"
    /\ UNCHANGED << environ, tasks >>
    /\ UNCHANGED << env, iteration_count, validation_history, previous_feedback,
                    report_content, search_results, final_report, err, store,
                    writes, calls >>

ValidatorSpec == ValidatorInit /\ [][ValidatorCall]_vars

\* the judge's text is not the text of a JSON value
Unparsable(resp) == resp.t = "text" /\ ~ExtractJson(Strip(resp.text)).ok

\* the judge's text is a JSON value that is not an object
NotAnObject(resp) ==
    /\ resp.t = "text"
    /\ ExtractJson(Strip(resp.text)).ok
    /\ ExtractJson(Strip(resp.text)).v.t # "dict"

\* the verdict is approved with score 0 and a feedback that tells of the failure
SkippedVerdict(v) ==
    /\ v["is_approved"] = Bool(TRUE)
    /\ v["quality_score"] = Num(0)
    /\ v["feedback"] = Str("Validation skipped due to error")

\* C4 as stated: on every internal failure, a raised call or a judge text that
\* cannot be parsed, execute returns is_approved = true, quality_score = 0 and a
\* feedback that describes the failure
C4_FailOpenScoreZero ==
    (pc = "returned"
        /\ (env.judge.t = "raise" \/ Unparsable(env.judge) \/ NotAnObject(env.judge)))
    => SkippedVerdict(result)

\* C4, amended: when the judge call raises or the judge's JSON is not an
\* object, execute returns is_approved = true, quality_score = 0 and the feedback
\* "Validation skipped due to error"; when the judge's text cannot be parsed it
\* returns is_approved = true with quality_score = 80 and the feedback "Report
\* meets quality standards"
C4_FailOpenVerdicts ==
    pc = "returned" =>
        /\ (env.judge.t = "raise" \/ NotAnObject(env.judge)) => SkippedVerdict(result)
        /\ Unparsable(env.judge) =>
             /\ result["is_approved"] = Bool(TRUE)
             /\ result["quality_score"] = Num(80)
             /\ result["feedback"] = Str("Report meets quality standards")

\* a judge answer in prose, approved with score 80
C4_Witness ==
    /\ pc = "returned"
    /\ env.judge = Text(<< Prose >>)
    /\ result["is_approved"] = Bool(TRUE)
    /\ result["quality_score"] = Num(80)

\* the judge's text is the text of a JSON object
JudgeObject == env.judge.t = "text" /\ ~Unparsable(env.judge) /\ ~NotAnObject(env.judge)
JudgeDict == ExtractJson(Strip(env.judge.text)).v.d

\* execute returns the parsed verdict, not the fail-open one of its except
\* clause: the print of line 65 slices the feedback of a rejection
VerdictReturned ==
    /\ JudgeObject
    /\ \/ Truthy(get(JudgeDict, "is_approved", Bool(FALSE)))
       \/ Sliceable(get(JudgeDict, "feedback", Str("Validation incomplete")))

\* C13 as stated: outside the fail-open case the returned is_approved is true
\* when quality_score >= 50 and false when quality_score < 50, whatever flag
\* the judge wrote
C13_ThresholdDecides ==
    (pc = "returned" /\ VerdictReturned) =>
        result["is_approved"] = Bool(result["quality_score"].n >= ApprovalThreshold)

\* C13, amended: outside the fail-open case the returned is_approved and
\* quality_score are the ones the judge wrote (false and 0 where the judge
\* wrote none); no threshold is applied to the score
C13_JudgeFlagDecides ==
    (pc = "returned" /\ VerdictReturned) =>
        /\ result["is_approved"] = get(JudgeDict, "is_approved", Bool(FALSE))
        /\ result["quality_score"] = get(JudgeDict, "quality_score", Num(0))

\* the judge scored 80 and rejected: the verdict is a rejection
C13_Witness ==
    /\ pc = "returned"
    /\ env.judge = Text(<< J(Dict(("is_approved" :> Bool(FALSE))
                                 @@ ("quality_score" :> Num(80))
                                 @@ ("feedback" :> Str("needs work"))
                                 @@ ("issues" :> List(2)))) >>)
    /\ result["is_approved"] = Bool(FALSE)
    /\ result["quality_score"] = Num(80)

\* the judge's text is a JSON object whose is_approved is false
JudgeRejects ==
    /\ JudgeObject
    /\ "is_approved" \in DOMAIN JudgeDict
    /\ JudgeDict["is_approved"] = Bool(FALSE)

\* C27: a judge answer that parses to an object with is_approved = false is
\* returned by execute as is_approved = false, whatever its other fields are
C27_RejectionStaysRejection ==
    (pc = "returned" /\ JudgeRejects) => result["is_approved"] = Bool(FALSE)

(***************************************************************************)
(* GeneratorSpec: ReportGeneratorAgent.execute applied to every LLM answer.*)
(***************************************************************************)
DraftVals(k) ==
    IF k = "summary"
    THEN { Summary(1, "high"), Summary(1, "severe"), NoneV }
    ELSE { Entries(0, {}), Entries(2, {"low", "critical"}), Entries(1, {"urgent"}) }

GeneratorAnswers ==
    {CallRaises} \cup Texts(Dicts(Sections, DraftVals) \cup NonObjects)

GeneratorInit ==
    /\ env \in [llm : GeneratorAnswers]
    /\ pc = "generator"
    /\ InitLocals

\* report_agent.execute(...) called, the LLM answering env.llm
GeneratorCall ==
    /\ pc = "generator"
    /\ result' = ReportGeneratorAgent_execute(env.llm)
    /\ pc' = "returned"
    /\ UNCHANGED << environ, tasks >>
    /\ UNCHANGED << env, iteration_count, validation_history, previous_feedback,
                    report_content, search_results, final_report, err, store,
                    writes, calls >>

GeneratorSpec == GeneratorInit /\ [][GeneratorCall]_vars

\* the risk levels a section's value uses
RisksOf(v) ==
    IF v.t = "list" THEN v.risks
    ELSE IF v.t = "dict" /\ "overall_risk" \in DOMAIN v.d /\ v.d["overall_risk"].t = "str"
         THEN { v.d["overall_risk"].s }
         ELSE { "none" }

\* the minimum schema of a Draft: an object with the four sections, the summary
\* an object, the other three lists, every risk level one of the four
MinimumSchema(draft) ==
    /\ draft.t = "dict"
    /\ Sections \subseteq DOMAIN draft.d
    /\ draft.d["summary"].t = "dict"
    /\ \A k \in Sections \ {"summary"} : draft.d[k].t = "list"
    /\ \A k \in Sections : RisksOf(draft.d[k]) \subseteq RiskLevels

\* the response is malformed: not JSON, JSON that is not an object, or an
\* object without one of the sections
Malformed(resp) ==
    \/ Unparsable(resp)
    \/ NotAnObject(resp)
    \/ /\ resp.t = "text"
       /\ ExtractJson(Strip(resp.text)).ok
       /\ ExtractJson(Strip(resp.text)).v.t = "dict"
       /\ ~(Sections \subseteq DOMAIN ExtractJson(Strip(resp.text)).v.d)

\* C7: for every malformed generator response, generate returns a Draft with
\* the four sections present and every risk level one of critical, high,
\* medium, low
C7_MalformedIsRepaired ==
    (pc = "returned" /\ Malformed(env.llm))
    => (result.success /\ MinimumSchema(result.report))

\* C8 as stated: a failure of the generator's LLM call is absorbed inside the
\* generator with a fallback Draft, so that the Controller goes on to validation
C8_GeneratorNeverFails ==
    (pc = "returned" /\ env.llm.t = "raise")
    => /\ result.success
       /\ result.report = MinimalReport
       /\ AfterGenerate(result) = "validate"

\* C8, amended: the generator returns the fallback Draft only for a response
\* text that cannot be parsed; a failure of its LLM call is returned as
\* success=false without a Draft, on which the Controller raises "Report
\* generation failed" instead of validating; every other result goes on to
\* validation
C8_GeneratorFailureIsFatal ==
    pc = "returned" =>
        /\ env.llm.t = "raise" =>
             /\ ~result.success
             /\ result.report = NoneV
             /\ AfterGenerate(result) = "except"
        /\ env.llm.t = "text" =>
             /\ result.success
             /\ AfterGenerate(result) = "validate"
             /\ Unparsable(env.llm) => result.report = MinimalReport

\* the LLM call raised and the generator returned success=false
C8_Witness ==
    /\ pc = "returned"
    /\ env.llm = CallRaises
    /\ ~result.success
    /\ AfterGenerate(result) = "except"

(***************************************************************************)
(* The Gatherer: SearchAgent (search_agent.py) and MCPSearchAgent          *)
(* (search_agent_mcp.py).  An evidence item is its URL, a number, and src, *)
(* what produced it; two items with one URL differ in src.                 *)
(***************************************************************************)
\* "top 15" (search_agent.py 147, 179, 183)
TopN == 15
\* queries[:10] (search_agent.py 101)
QueryCap == 10
\* max_results=5 (search_agent.py 123)
ResultsPerQuery == 5
\* formatted_results[:15] (search_agent_mcp.py 354)
McpParseCap == 15
\* "less than 10 results" (search_agent_mcp.py 111, 506)
SupplementBelow == 10
\* unique_results[:15], search_results[:15] (search_agent_mcp.py 123, 526)
McpCap == 15
\* results[:12] (search_agent_mcp.py 488)
WebCap == 12
\* source_list[:2] (search_agent_mcp.py 446)
PerCategory == 2
\* the categories of the table of sources (search_agent_mcp.py 397-421)
Categories == 4

Item(u, src) == [url |-> u, src |-> src]

Min(a, b) == IF a < b THEN a ELSE b

\* s[:n]
FirstN(s, n) == SubSeq(s, 1, Min(n, Len(s)))

Urls(items) == { items[i].url : i \in DOMAIN items }

\* the loop "if result['url'] not in seen_urls" (search_agent.py 130-136,
\* search_agent_mcp.py 117-122, 514-519)
RECURSIVE UniqueFrom(_, _)
UniqueFrom(items, seen) ==
    IF items = << >> THEN << >>
    ELSE IF items[1].url \in seen
         THEN UniqueFrom(Tail(items), seen)
         ELSE << items[1] >> \o UniqueFrom(Tail(items), seen \cup {items[1].url})

DedupByUrl(items) == UniqueFrom(items, {})

\* the three fallback queries (search_agent.py 106-111)
FallbackQueries == << "fallback 1", "fallback 2", "fallback 3" >>

\* a JSON list of n query strings
QueryList(n) == [t |-> "list", len |-> n, items |-> [i \in 1..n |-> "derived"]]

\* SearchAgent._generate_search_queries from the LLM call on (89-113): the
\* text is given to json.loads as it is
generate_search_queries(resp) ==
    IF resp.t = "raise" THEN Raise("query derivation call failed")
    ELSE LET parsed == json_loads(Strip(resp.text))
         IN  IF parsed.ok /\ parsed.v.t = "list"
             THEN Return(FirstN(parsed.v.items, QueryCap))
             ELSE Return(FallbackQueries)

\* what mcp_client.search_web answers to the i-th query, by kind: five new
\* URLs, the five URLs every query finds, five URLs of which two were found by
\* the query before, or an exception
BatchKinds == {"fresh", "same", "overlap", "raise"}
Batch(kind, i) ==
    CASE kind = "fresh"   -> [j \in 1..ResultsPerQuery |-> Item(ResultsPerQuery * i + j, i)]
      [] kind = "same"    -> [j \in 1..ResultsPerQuery |-> Item(j, i)]
      [] kind = "overlap" -> [j \in 1..ResultsPerQuery |-> Item(ResultsPerQuery * i + j - 2, i)]
      [] OTHER            -> << >>

\* the answer to the i-th query: the answers are chosen for the first
\* Len(batches) queries and repeat after them
BatchOf(batches, i) == Batch(batches[((i - 1) % Len(batches)) + 1], i)

\* the loop over the queries (search_agent.py 119-128)
RECURSIVE AllResults(_, _, _)
AllResults(batches, i, n) ==
    IF i > n THEN << >> ELSE BatchOf(batches, i) \o AllResults(batches, i + 1, n)

\* execute_searches keeping, of the items with one URL, the one found last
ExecuteSearchesKeepLast(queries, batches) ==
    LET all == AllResults(batches, 1, Len(queries))
    IN  SelectSeq(all, LAMBDA e :
            \A j \in DOMAIN all : all[j].url = e.url => all[j].src <= e.src)

\* SearchAgent._execute_searches (115-138)
execute_searches(queries, batches) ==
    DedupByUrl(AllResults(batches, 1, Len(queries)))

\* a re-ranking answer: a JSON list of URLs; 0 is an element that is no string
\* (a nested list), which cannot be looked up
RankList(urls) == [t |-> "list", len |-> Len(urls), items |-> urls]

\* the loop "for url in ranked_urls" (search_agent.py 175-177)
RECURSIVE Reorder(_, _)
Reorder(urls, items) ==
    IF urls = << >> THEN << >>
    ELSE LET hit == { i \in DOMAIN items : items[i].url = urls[1] }
         IN  (IF hit = {} THEN << >> ELSE << items[CHOOSE i \in hit : TRUE] >>)
             \o Reorder(Tail(urls), items)

\* filter_results without the cut of the re-ranked list
FilterResultsUncut(results, resp) ==
    IF Len(results) <= TopN THEN results
    ELSE LET parsed == IF resp.t = "raise" THEN [ok |-> FALSE, v |-> NoneV]
                       ELSE json_loads(Strip(resp.text))
         IN  IF parsed.ok /\ parsed.v.t = "list"
                /\ \A i \in DOMAIN parsed.v.items : parsed.v.items[i] # 0
             THEN Reorder(parsed.v.items, results)
             ELSE results

\* SearchAgent._filter_results (140-183)
filter_results(results, resp) ==
    IF Len(results) <= TopN THEN results
    ELSE LET parsed == IF resp.t = "raise" THEN [ok |-> FALSE, v |-> NoneV]
                       ELSE json_loads(Strip(resp.text))
             fallback == FirstN(results, TopN)
         IN  IF ~parsed.ok THEN fallback
             ELSE IF parsed.v.t \in {"num", "None", "bool"} THEN fallback
             ELSE IF parsed.v.t # "list" THEN << >>
             ELSE IF \E i \in DOMAIN parsed.v.items : parsed.v.items[i] = 0
                  THEN fallback
                  ELSE FirstN(Reorder(parsed.v.items, results), TopN)

\* SearchAgent.execute (34-63)
SearchAgent_execute(derive, batches, rank) ==
    LET q == generate_search_queries(derive)
    IN  IF q.raised
        THEN [success |-> FALSE, error |-> q.v, search_results |-> << >>]
        ELSE [success |-> TRUE, error |-> NoneV,
              search_results |-> filter_results(execute_searches(q.v, batches), rank)]

\* the URLs of the table of sources that are tried: two per category
\* (search_agent_mcp.py 397-421, 446); they are pairwise different
WebUrl(k) == 100 + k
WebSourceCount == Categories * PerCategory

\* MCPSearchAgent._get_real_web_sources (384-488): a source answers with
\* status 200 or its request raises, and is added, or it answers with another
\* status and is skipped; skipped is the set of the skipped sources
RECURSIVE WebItems(_, _)
WebItems(k, skipped) ==
    IF k > WebSourceCount THEN << >>
    ELSE (IF k \in skipped THEN << >> ELSE << Item(WebUrl(k), "web") >>)
         \o WebItems(k + 1, skipped)

get_real_web_sources(skipped) == FirstN(WebItems(1, skipped), WebCap)

\* MCPSearchAgent._fallback_search (490-530)
fallback_search(skipped, derive, batches, rank) ==
    LET web == get_real_web_sources(skipped)
        basic == SearchAgent_execute(derive, batches, rank)
        found == IF Len(web) >= SupplementBelow THEN web
                 ELSE IF basic.success
                      THEN DedupByUrl(web \o basic.search_results)
                      ELSE web
    IN  IF Len(web) < SupplementBelow /\ SearchAgent_init({"api_key"}) # "ok"
        THEN Raise(SearchAgent_init({"api_key"}))
        ELSE Return([success |-> TRUE, error |-> NoneV,
                     search_results |-> FirstN(found, McpCap)])

\* MCPSearchAgent._parse_search_results, its last step (343-354): the items
\* found in the response text, cut to 15
parse_search_results(found) == FirstN(found, McpParseCap)

\* MCPSearchAgent.execute (82-142).  mcp is what the MCP search leaves: the
\* items found in the response text, or an exception of the steps that are not
\* inside _execute_mcp_search's own try (building the options, the web
\* sources' client)
MCPSearchAgent_execute(mcp_configured, mcp, skipped, derive, batches, rank) ==
    LET parsed == parse_search_results(mcp.items)
        supplemented ==
            FirstN(DedupByUrl(parsed \o get_real_web_sources(skipped)), McpCap)
    IN  IF ~mcp_configured \/ mcp.raised
        THEN fallback_search(skipped, derive, batches, rank)
        ELSE Return([success |-> TRUE, error |-> NoneV,
                     search_results |->
                        IF Len(parsed) < SupplementBelow THEN supplemented
                        ELSE parsed])

(***************************************************************************)
(* GathererSpec: SearchAgent.execute and MCPSearchAgent.execute applied to *)
(* the answers of their collaborators.                                     *)
(***************************************************************************)
DeriveAnswers ==
    { CallRaises, Text(<< Prose >>), Text(<< J(EmptyDict) >>),
      Text(<< Fence, JsonWord, J(QueryList(3)), Fence >>),
      Text(<< J(QueryList(QueryCap + 2)) >>) }
    \cup { Text(<< J(QueryList(n)) >>) : n \in 0..MaxQueries }

\* the largest URL a lookup can find
MaxUrl == ResultsPerQuery * (QueryCap + 1)

\* re-ranking answers: all URLs in falling order, in rising order, each of
\* the first URLs twice, a short list, no URL, unknown URLs, an element that
\* is no string, and answers that are no JSON list
RankAnswers ==
    { CallRaises, Text(<< Prose >>), Text(<< J(Num(5)) >>), Text(<< J(EmptyDict) >>),
      Text(<< Fence, JsonWord, J(RankList([i \in 1..MaxUrl |-> i])), Fence >>),
      Text(<< J(RankList([i \in 1..MaxUrl |-> MaxUrl + 1 - i])) >>),
      Text(<< J(RankList([i \in 1..MaxUrl |-> i])) >>),
      Text(<< J(RankList([i \in 1..(2 * TopN) |-> ResultsPerQuery + ((i + 1) \div 2)])) >>),
      Text(<< J(RankList(<< 7, 6, 8 >>)) >>),
      Text(<< J(RankList(<< >>)) >>),
      Text(<< J(RankList(<< 999, 998 >>)) >>),
      Text(<< J(RankList(<< 6, 0, 7 >>)) >>) }

\* the items an MCP search leaves in its response text: n items with n URLs,
\* with every URL twice, or with the URLs of the table of sources first
McpShapes == {"unique", "pairs", "web"}
McpItems(n, shape) ==
    [ i \in 1..n |->
        CASE shape = "unique" -> Item(200 + i, "mcp")
          [] shape = "pairs"  -> Item(200 + ((i + 1) \div 2), "mcp")
          [] OTHER -> Item(IF i <= WebSourceCount THEN WebUrl(i) ELSE 200 + i, "mcp") ]

McpAnswers ==
    { [raised |-> TRUE, items |-> << >>] }
    \cup { [raised |-> FALSE, items |-> McpItems(n, sh)] :
             n \in 0..MaxMcpResults, sh \in McpShapes }

SkippedSets == { {}, {1}, 1..WebSourceCount, 2..WebSourceCount }

SearchEnvs ==
    [ agent : {"search"}, derive : DeriveAnswers,
      batches : Scripts(BatchKinds, MaxQueries), rank : RankAnswers,
      mcp_configured : {FALSE}, mcp : {[raised |-> FALSE, items |-> << >>]}, skipped : {{}} ]

McpEnvs ==
    [ agent : {"mcp"}, derive : {Text(<< J(QueryList(MaxQueries)) >>)},
      batches : {[i \in 1..MaxQueries |-> "fresh"]}, rank : {CallRaises},
      mcp_configured : BOOLEAN, mcp : McpAnswers, skipped : SkippedSets ]

GathererInit ==
    /\ env \in SearchEnvs \cup McpEnvs
    /\ pc = env.agent
    /\ InitLocals

\* SearchAgent().execute(company_profile)
SearchCall ==
    /\ pc = "search"
    /\ result' = Return(SearchAgent_execute(env.derive, env.batches, env.rank))
    /\ pc' = "returned"
    /\ UNCHANGED << environ, tasks >>
    /\ UNCHANGED << env, iteration_count, validation_history, previous_feedback,
                    report_content, search_results, final_report, err, store,
                    writes, calls >>

\* MCPSearchAgent(api_key).execute(company_profile)
McpCall ==
    /\ pc = "mcp"
    /\ result' = MCPSearchAgent_execute(env.mcp_configured, env.mcp, env.skipped,
                                        env.derive, env.batches, env.rank)
    /\ pc' = "returned"
    /\ UNCHANGED << environ, tasks >>
    /\ UNCHANGED << env, iteration_count, validation_history, previous_feedback,
                    report_content, search_results, final_report, err, store,
                    writes, calls >>

GathererNext == SearchCall \/ McpCall

GathererSpec == GathererInit /\ [][GathererNext]_vars

\* execute returned a result
Gathered == pc = "returned" /\ ~result.raised

NoTwoWithOneUrl(items) ==
    \A i, j \in DOMAIN items : i # j => items[i].url # items[j].url

\* C5: the evidence returned by the Gatherer never holds two items with the
\* same URL
C5_NoDuplicateUrls ==
    Gathered => NoTwoWithOneUrl(result.v.search_results)

\* C6: the evidence returned by the Gatherer has at most 15 items, whichever
\* path produced it
C6_AtMostFifteen ==
    Gathered => Len(result.v.search_results) <= 15

\* more than 15 merged items were re-ranked and exactly 15 are returned
C6_Witness ==
    /\ Gathered
    /\ env.agent = "search"
    /\ env.derive = Text(<< J(QueryList(MaxQueries)) >>)
    /\ Len(execute_searches(generate_search_queries(env.derive).v, env.batches)) > 15
    /\ env.rank = Text(<< J(RankList([i \in 1..MaxUrl |-> MaxUrl + 1 - i])) >>)
    /\ Len(result.v.search_results) = 15

\* C14: the Gatherer's execute never raises to its caller: it returns a
\* result, and a result that reports failure has an error description and no
\* evidence
C14_GathererNeverRaises ==
    pc = "returned" =>
        /\ ~result.raised
        /\ ~result.v.success =>
              (result.v.error # NoneV /\ result.v.search_results = << >>)

\* the queries SearchAgent.execute issues, when derivation returned
Derived == generate_search_queries(env.derive)

\* the concatenation of the per-query results, in the order of the queries
Concatenation == AllResults(env.batches, 1, Len(Derived.v))

\* the places of the concatenation that hold the first item with their URL
FirstPlaces(all) ==
    { i \in DOMAIN all : \A j \in 1..(i - 1) : all[j].url # all[i].url }

\* the k-th smallest element of a set of numbers
Kth(S, k) == CHOOSE i \in S : Cardinality({ j \in S : j <= i }) = k

\* SearchAgent.execute returned the merged items as they were: the queries
\* were derived and the merge left no more than 15 items
MergeReturned ==
    /\ Gathered
    /\ env.agent = "search"
    /\ ~Derived.raised
    /\ Len(execute_searches(Derived.v, env.batches)) <= TopN

\* C21: the merge keeps, for each URL, the first item with that URL of the
\* concatenation of the per-query results, and keeps the items in the order of
\* their first occurrence
C21_MergeKeepsFirstSeen ==
    MergeReturned =>
        LET all == Concatenation
            merged == result.v.search_results
        IN  /\ Len(merged) = Cardinality(FirstPlaces(all))
            /\ \A k \in DOMAIN merged : merged[k] = all[Kth(FirstPlaces(all), k)]

\* two queries found the same URLs and a third one new ones: the merge
\* dropped the later items
C21_Witness ==
    /\ MergeReturned
    /\ Len(Derived.v) = 3
    /\ env.batches[1] = "same" /\ env.batches[2] = "same" /\ env.batches[3] = "fresh"
    /\ Len(Concatenation) = 3 * ResultsPerQuery
    /\ Len(result.v.search_results) = 2 * ResultsPerQuery
    /\ result.v.search_results[1] = Item(1, 1)

\* the merged items SearchAgent.execute hands to _filter_results
Merged == execute_searches(Derived.v, env.batches)

\* the re-ranking answer, parsed
Ranked == json_loads(Strip(env.rank.text))

\* the URLs of merged items that a re-ranking list names
KnownUrlsNamed ==
    { Ranked.v.items[i] : i \in DOMAIN Ranked.v.items } \cap Urls(Merged)

\* re-ranking failed or its output is unusable: the call raised, the text is
\* not JSON, or the text is a list that names fewer than 15 URLs of merged
\* items (none among them)
RankingUnusable ==
    \/ env.rank.t = "raise"
    \/ ~Ranked.ok
    \/ Ranked.v.t = "list" /\ Cardinality(KnownUrlsNamed) < TopN

\* SearchAgent.execute returned after re-ranking more than 15 merged items
Reranked ==
    /\ Gathered
    /\ env.agent = "search"
    /\ ~Derived.raised
    /\ Len(Merged) > TopN

\* C22: with more than 15 merged items and a re-ranking that failed or gave
\* unusable output, the Gatherer returns the first 15 merged items in arrival
\* order
C22_UnusableRankingTruncates ==
    (Reranked /\ RankingUnusable) =>
        result.v.search_results = FirstN(Merged, TopN)

\* the answer of the query derivation, parsed
DerivedJson == json_loads(Strip(env.derive.text))

\* query derivation failed (its call raised or its text cannot be parsed) or
\* yielded an empty list of queries
DerivationFailedOrEmpty ==
    \/ env.derive.t = "raise"
    \/ ~DerivedJson.ok
    \/ DerivedJson.v.t = "list" /\ DerivedJson.v.len = 0

\* what SearchAgent.execute returns when it issues the fallback queries
WithFallbackQueries ==
    filter_results(execute_searches(FallbackQueries, env.batches), env.rank)

\* C23: when query derivation fails or yields nothing the Gatherer issues the
\* fallback queries: it reports success and returns what these queries found
C23_DerivationFallsBack ==
    (Gathered /\ env.agent = "search" /\ DerivationFailedOrEmpty) =>
        /\ result.v.success
        /\ result.v.search_results = WithFallbackQueries

(***************************************************************************)
(* ConcurrentSpec: two coroutines of one event loop, each inside           *)
(* MCPSearchAgent._execute_mcp_search (search_agent_mcp.py 209-298) of an  *)
(* agent constructed with its run's credential.  The coroutines interleave *)
(* at their awaits.  environ is the process's ANTHROPIC_API_KEY variable,  *)
(* None when it is not set.                                                *)
(***************************************************************************)
Tasks == {1, 2}
Credentials == {"sk-ant-A", "sk-ant-B", "sk-ant-C"}

ConcurrentInit ==
    /\ env \in { e \in [ keys : [Tasks -> Credentials],
                         before : {NoneV, Str("sk-ant-S")} ] :
                   \A p, q \in Tasks : p # q => e.keys[p] # e.keys[q] }
    /\ environ = env.before
    /\ tasks = [p \in Tasks |-> [at |-> "start", original_api_key |-> NoneV,
                                  used |-> NoneV]]
    /\ pc = "concurrent"
    /\ iteration_count = 0
    /\ validation_history = << >>
    /\ previous_feedback = NoneV
    /\ report_content = NoneV
    /\ search_results = NoneV
    /\ final_report = NoneV
    /\ err = ""
    /\ store = NoRecord
    /\ writes = 0
    /\ result = NoResult
    /\ calls = [gather |-> 0, generate |-> << >>, validate |-> << >>]

\* lines 211-212: remember the variable and set it to the agent's key; the
\* coroutine then awaits the client's __aenter__ (line 215)
McpEnter(p) ==
    /\ tasks[p].at = "start"
    /\ tasks' = [tasks EXCEPT ![p].at = "entered", ![p].original_api_key = environ]
    /\ environ' = Str(env.keys[p])
    /\ UNCHANGED << env, pc, iteration_count, validation_history, previous_feedback,
                    report_content, search_results, final_report, err, store,
                    writes, result, calls >>

\* lines 211-215 when the client takes the credential from the environment
\* before its __aenter__ first suspends
McpEnterConnect(p) ==
    /\ tasks[p].at = "start"
    /\ tasks' = [tasks EXCEPT ![p].at = "connected", ![p].original_api_key = environ,
                                ![p].used = Str(env.keys[p])]
    /\ environ' = Str(env.keys[p])
    /\ UNCHANGED << env, pc, iteration_count, validation_history, previous_feedback,
                    report_content, search_results, final_report, err, store,
                    writes, result, calls >>

\* line 215: the client, started inside the awaited __aenter__, takes the
\* credential that the environment holds at that time; lines 218-285 then
\* await the query and its response
McpConnect(p) ==
    /\ tasks[p].at = "entered"
    /\ tasks' = [tasks EXCEPT ![p].at = "connected", ![p].used = environ]
    /\ environ' = environ
    /\ UNCHANGED << env, pc, iteration_count, validation_history, previous_feedback,
                    report_content, search_results, final_report, err, store,
                    writes, result, calls >>

\* lines 291-296, the finally clause: put back the remembered value, or
\* delete the variable when none was remembered
McpExit(p) ==
    /\ tasks[p].at = "connected"
    /\ tasks' = [tasks EXCEPT ![p].at = "exited"]
    /\ environ' = tasks[p].original_api_key
    /\ UNCHANGED << env, pc, iteration_count, validation_history, previous_feedback,
                    report_content, search_results, final_report, err, store,
                    writes, result, calls >>

ConcurrentNext ==
    \E p \in Tasks : McpEnter(p) \/ McpEnterConnect(p) \/ McpConnect(p) \/ McpExit(p)

ConcurrentSpec == ConcurrentInit /\ [][ConcurrentNext]_vars

\* C15: two concurrent runs with different credentials share no mutable
\* state: each run's outbound calls use its own credential, no run observes a
\* value set by the other, and once both have finished the process-wide
\* ANTHROPIC_API_KEY is what it was before the runs
C15_RunsAreIsolated ==
    pc = "concurrent" =>
        /\ \A p \in Tasks :
              /\ tasks[p].at \in {"connected", "exited"} => tasks[p].used = Str(env.keys[p])
              /\ tasks[p].at # "start" => tasks[p].original_api_key = env.before
        /\ (\A p \in Tasks : tasks[p].at = "exited") => environ = env.before

(***************************************************************************)
(* EventLoopSpec: two runs of generate_report as coroutines of the one      *)
(* event loop that serves the requests (routes.py 93-135).  A coroutine     *)
(* leaves the loop's thread only where it awaits I/O: the lookups of        *)
(* mcp_client.search_web (httpx.AsyncClient).  The LLM calls are calls of   *)
(* the synchronous client, self.client.messages.create, made without await: *)
(* the thread stays inside the call until the response has arrived.  The    *)
(* runs are entered with their agents constructed.                          *)
(***************************************************************************)
\* where a coroutine is inside a synchronous LLM call (search_agent.py 89,
\* 163, report_agent.py 203, validator_agent.py 133)
BlockingPlaces == {"derive", "rank", "generate", "validate"}

\* the loop's thread is inside no coroutine's call
ThreadFree == \A q \in Tasks : tasks[q].at \notin BlockingPlaces

EventLoopInit ==
    /\ env \in [ queries : [Tasks -> 1..MaxQueries],
                 max_iterations : 1..MaxIterations ]
    /\ tasks = [p \in Tasks |-> [at |-> "start", query |-> 0, round |-> 0]]
    /\ pc = "event_loop"
    /\ environ = NoneV
    /\ iteration_count = 0
    /\ validation_history = << >>
    /\ previous_feedback = NoneV
    /\ report_content = NoneV
    /\ search_results = NoneV
    /\ final_report = NoneV
    /\ err = ""
    /\ store = NoRecord
    /\ writes = 0
    /\ result = NoResult
    /\ calls = [gather |-> 0, generate |-> << >>, validate |-> << >>]

\* the loop starts the request's coroutine, which runs to the query derivation
\* call (routes.py 135, report_service.py 75, search_agent.py 36, 89)
RunStart(p) ==
    /\ tasks[p].at = "start"
    /\ ThreadFree
    /\ tasks' = [tasks EXCEPT ![p].at = "derive"]
    /\ UNCHANGED << env, pc, environ, iteration_count, validation_history,
                    previous_feedback, report_content, search_results,
                    final_report, err, store, writes, result, calls >>

\* the derivation call returns; the coroutine goes on to its first lookup and
\* is suspended in it (search_agent.py 89-121)
DeriveReturn(p) ==
    /\ tasks[p].at = "derive"
    /\ tasks' = [tasks EXCEPT ![p].at = "lookup", ![p].query = 1]
    /\ UNCHANGED << env, pc, environ, iteration_count, validation_history,
                    previous_feedback, report_content, search_results,
                    final_report, err, store, writes, result, calls >>

\* a lookup has answered and the loop resumes the coroutine: it is suspended
\* in its next lookup or, after the last one, goes on to re-ranking when more
\* than 15 items were found, else to the first generator call
\* (search_agent.py 119-163, report_service.py 83-97, report_agent.py 203)
LookupResume(p) ==
    /\ tasks[p].at = "lookup"
    /\ ThreadFree
    /\ tasks' =
         IF tasks[p].query < env.queries[p]
         THEN [tasks EXCEPT ![p].query = @ + 1]
         ELSE IF env.queries[p] * ResultsPerQuery > TopN
              THEN [tasks EXCEPT ![p].at = "rank"]
              ELSE [tasks EXCEPT ![p].at = "generate", ![p].round = 1]
    /\ UNCHANGED << env, pc, environ, iteration_count, validation_history,
                    previous_feedback, report_content, search_results,
                    final_report, err, store, writes, result, calls >>

\* the re-ranking call returns; the coroutine goes on to the first generator
\* call (search_agent.py 163-179, report_service.py 83-97, report_agent.py 203)
RankReturn(p) ==
    /\ tasks[p].at = "rank"
    /\ tasks' = [tasks EXCEPT ![p].at = "generate", ![p].round = 1]
    /\ UNCHANGED << env, pc, environ, iteration_count, validation_history,
                    previous_feedback, report_content, search_results,
                    final_report, err, store, writes, result, calls >>

\* the generator call returns; the coroutine goes on to the judge call
\* (report_agent.py 203, report_service.py 103-111, validator_agent.py 133)
GenerateReturn(p) ==
    /\ tasks[p].at = "generate"
    /\ tasks' = [tasks EXCEPT ![p].at = "validate"]
    /\ UNCHANGED << env, pc, environ, iteration_count, validation_history,
                    previous_feedback, report_content, search_results,
                    final_report, err, store, writes, result, calls >>

\* the judge call returns; the coroutine goes on to the next round's generator
\* call or, leaving the loop, to its return (validator_agent.py 133,
\* report_service.py 117-240)
ValidateReturn(p) ==
    /\ tasks[p].at = "validate"
    /\ \E approved \in BOOLEAN :
         tasks' =
           IF AfterValidate(approved, tasks[p].round) = "generate"
           THEN [tasks EXCEPT ![p].at = "generate", ![p].round = @ + 1]
           ELSE [tasks EXCEPT ![p].at = "done"]
    /\ UNCHANGED << env, pc, environ, iteration_count, validation_history,
                    previous_feedback, report_content, search_results,
                    final_report, err, store, writes, result, calls >>

\* a step of coroutine p
RunStep(p) ==
    \/ RunStart(p)
    \/ DeriveReturn(p)
    \/ LookupResume(p)
    \/ RankReturn(p)
    \/ GenerateReturn(p)
    \/ ValidateReturn(p)

EventLoopNext == \E p \in Tasks : RunStep(p)

EventLoopSpec == EventLoopInit /\ [][EventLoopNext]_vars

\* C25: while one run waits on an LLM call of the Gatherer, Generator or
\* Validator, another run that has started and not finished can take a step
C25_RunsNotSerialized ==
    \A p, q \in Tasks :
        (p # q /\ tasks[p].at \in BlockingPlaces /\ tasks[q].at # "done")
            => ENABLED RunStep(q)

(***************************************************************************)
(* Properties of lines 73-267, the part of generate_report that follows    *)
(* the construction of the agents (LoopSpec).                              *)
(***************************************************************************)
\* the loop was left by approval or with the iterations used up: line 142 ran
LoopLeft == pc \in {"add_report", "pdf", "return"} \/ (Finished /\ final_report # NoneV)

\* C11: once the loop has reached APPROVED or EXHAUSTED, a commit step that
\* fails (writing the record, indexing, rendering) does not fail the run: it
\* returns success=true with status approved and the persisted record keeps
\* status approved
C11_CommitFailureTolerated ==
    (Finished /\ LoopLeft) =>
        /\ pc = "done"
        /\ result.success
        /\ Status = "approved"
        /\ store.status = "approved"

\* generate_report returned a completed record
ApprovedResult ==
    /\ pc = "done" /\ result # NoResult
    /\ result.success
    /\ result.report.status = "approved"

\* generate_report returned an explicit failure with its reason
FailedResult ==
    /\ pc = "done" /\ result # NoResult
    /\ ~result.success
    /\ result.report.status = "failed"
    /\ result.error # "" /\ result.report.error = result.error

PlaceRank ==
    CASE pc = "gather"     -> 8
      [] pc = "validate"   -> 7
      [] pc = "generate"   -> 6
      [] pc = "finalize"   -> 5
      [] pc = "add_report" -> 4
      [] pc = "pdf"        -> 3
      [] pc = "return"     -> 2
      [] pc = "except"     -> 1
      [] OTHER             -> 0
Variant == 10 * (env.max_iterations - iteration_count) + PlaceRank

Records ==
    (IF store # NoRecord THEN {store} ELSE {})
    \cup (IF pc = "done" /\ result # NoResult THEN {result.report} ELSE {})

\* C16 as stated: every record persisted or returned, approved or failed, has
\* iteration_count in 1..max_iterations
C16_CountAtLeastOne ==
    \A r \in Records : r.iteration_count \in 1..env.max_iterations

\* C16, amended: an approved record has iteration_count in 1..max_iterations;
\* a failed record has iteration_count in 0..max_iterations, the number of
\* generate calls the run had started, which is 0 when the run failed before
\* its first round
C16_CountRanges ==
    \A r \in Records :
        /\ r.status = "approved" => r.iteration_count \in 1..env.max_iterations
        /\ r.status = "failed" =>
              /\ r.iteration_count \in 0..env.max_iterations
              /\ r.iteration_count = Len(calls.generate)

\* a run whose gatherer reported failure: its failed record counts 0 rounds
C16_Witness ==
    /\ pc = "done"
    /\ GatherFails
    /\ store.status = "failed"
    /\ store.iteration_count = 0
    /\ result.report = store

\* C17: the first generate call of a run is given no feedback; the generate
\* call of round k >= 2 is given the feedback of the verdict of round k-1,
\* which is a rejection
C17_FeedbackThreading ==
    \A k \in DOMAIN calls.generate :
        IF k = 1 THEN calls.generate[k] = NoneV
        ELSE /\ k - 1 <= Len(validation_history)
             /\ calls.generate[k] = validation_history[k - 1].feedback
             /\ ~Truthy(validation_history[k - 1].is_approved)

\* a third round: its generate call was given the feedback of round 2, the
\* one of round 2 the feedback of round 1
C17_Witness ==
    /\ Len(calls.generate) = 3
    /\ calls.generate[1] = NoneV
    /\ calls.generate[2] = Str(FeedbackText(1))
    /\ calls.generate[3] = Str(FeedbackText(2))
    /\ FeedbackText(1) # FeedbackText(2)

\* C18: in every state of a run the gatherer has been invoked at most once
\* and before any generate call; iteration_count is the number of generate
\* calls started and lies in 0..max_iterations; there are never more validate
\* calls than generate calls; no generate call follows an approving verdict
C18_RoundsAreBounded ==
    /\ calls.gather <= 1
    /\ calls.generate # << >> => calls.gather = 1
    /\ iteration_count = Len(calls.generate)
    /\ iteration_count \in 0..env.max_iterations
    /\ Len(calls.validate) <= Len(calls.generate)
    /\ \A k \in DOMAIN validation_history :
          Truthy(validation_history[k].is_approved) => Len(calls.generate) = k

\* a run of three allowed rounds that was approved in its second round and
\* returned
C18_Witness ==
    /\ pc = "done"
    /\ env.max_iterations = 3
    /\ calls.gather = 1
    /\ Len(calls.generate) = 2
    /\ Len(calls.validate) = 2
    /\ Truthy(validation_history[2].is_approved)

\* the entry is an approval
Approving(entry) == Truthy(entry.is_approved)

\* C19: validation_history holds one entry per completed validate call, in
\* call order, the i-th tagged iteration i; no entry is ever dropped or
\* changed; every entry but the last is a rejection; a run that ends approved
\* ended by approval, its last entry approving, or by exhaustion, its last
\* entry a rejection in round max_iterations, and both have status approved
C19_HistoryKeepsEveryVerdict ==
    /\ [](/\ Len(validation_history) = Len(calls.validate)
          /\ \A i \in DOMAIN validation_history :
                /\ validation_history[i].iteration = i
                /\ i < Len(validation_history) => ~Approving(validation_history[i])
          /\ (pc = "done" /\ Status = "approved") =>
                /\ result.report.validation_history = validation_history
                /\ store.validation_history = validation_history
                /\ validation_history # << >>
                /\ \/ Approving(validation_history[Len(validation_history)])
                   \/ Len(validation_history) = env.max_iterations)
    /\ [][/\ Len(validation_history') >= Len(validation_history)
          /\ SubSeq(validation_history', 1, Len(validation_history))
               = validation_history]_vars

\* a run that ended by exhaustion: three rejections, all kept, and the
\* returned record approved
C19_Witness ==
    /\ pc = "done"
    /\ Status = "approved"
    /\ env.max_iterations = 3
    /\ Len(result.report.validation_history) = 3
    /\ \A i \in 1..3 : ~Approving(result.report.validation_history[i])

\* the Draft that the generate call of round k returned
DraftOfRound(k) == ReportGeneratorAgent_execute(GenResponse(env.gens[k], k)).report

\* C20: the content of the final record of an approved run is the Draft that
\* the last generate call returned, the Draft the last verdict was issued for;
\* on exhaustion it is the Draft of round max_iterations
C20_ContentIsLastDraft ==
    (pc = "done" /\ Status = "approved") =>
        /\ Len(calls.validate) = Len(calls.generate)
        /\ result.report.content = DraftOfRound(Len(calls.generate))
        /\ result.report.content = calls.validate[Len(calls.validate)]
        /\ store.content = result.report.content
        /\ ~Approving(validation_history[Len(validation_history)]) =>
              result.report.content = DraftOfRound(env.max_iterations)

\* a run that ended by exhaustion after three rounds: its record holds the
\* Draft of round 3, which differs from the Drafts of rounds 1 and 2
C20_Witness ==
    /\ pc = "done"
    /\ Status = "approved"
    /\ env.max_iterations = 3
    /\ Len(validation_history) = 3
    /\ ~Approving(validation_history[3])
    /\ result.report.content = GoodDraft(3)
    /\ calls.validate = << GoodDraft(1), GoodDraft(2), GoodDraft(3) >>
    /\ GoodDraft(3) # GoodDraft(2) /\ GoodDraft(3) # GoodDraft(1)

\* the approved record was written under the run's id (lines 156-159)
ApprovedWritten == final_report # NoneV /\ "write" \notin env.fails

\* C24: within one run the record under the run's id is written no more than
\* once, exactly once in a run that returns, and a record written with status
\* approved stays the stored record
C24_RecordWrittenOnce ==
    /\ writes <= 1
    /\ pc = "done" => writes = 1
    /\ ApprovedWritten => store.status = "approved"

\* the run got as far as the PDF part: the approved record was written and
\* indexed (lines 156-177)
PdfReached ==
    /\ ApprovedWritten
    /\ "add_report" \notin env.fails
    /\ OverallRiskReadable(report_content)

\* the PDF fields of a record are those of a rendered PDF when no step of the
\* PDF part failed, and those of a missing PDF when one did
PdfFields(record) ==
    IF env.fails \cap PdfSteps = {}
    THEN record.has_pdf = TRUE /\ record.pdf_path = Str("pdfs/report_id.pdf")
    ELSE record.has_pdf = FALSE /\ record.pdf_path = NoneV

\* C26: a failure of rendering the PDF or of storing its metadata does not
\* fail the run: a run that got as far as the PDF part returns success = true
\* with status approved, with has_pdf = false and pdf_path = null when one of
\* the two failed, and with has_pdf = true and the file's path when none did
C26_PdfFailureTolerated ==
    (Finished /\ PdfReached) =>
        /\ pc = "done"
        /\ err = ""
        /\ result.success
        /\ Status = "approved"
        /\ PdfFields(result.report)

\* storing the PDF's metadata failed after three rounds: the run returns the
\* approved record without a PDF
C26_Witness ==
    /\ pc = "done"
    /\ PdfReached
    /\ env.fails = {"add_pdf"}
    /\ iteration_count = 3
    /\ result.success
    /\ result.report.has_pdf = FALSE
    /\ result.report.pdf_path = NoneV

\* C28: the returned success flag is true exactly when the returned record
\* has status approved; an approved record has a content that is not null and
\* as many validation_history entries as iteration_count, at least one; a
\* failed record has no content, and its validation_history has
\* iteration_count entries or one less (none when iteration_count = 0)
C28_ResultConsistency ==
    pc = "done" =>
        LET record == result.report
            n == Len(record.validation_history)
        IN  /\ record.status \in {"approved", "failed"}
            /\ result.success <=> record.status = "approved"
            /\ record.status = "approved" =>
                 /\ record.content # NoneV
                 /\ n >= 1
                 /\ n = record.iteration_count
            /\ record.status = "failed" =>
                 /\ "content" \notin DOMAIN record
                 /\ n \in {record.iteration_count, record.iteration_count - 1}
                 /\ n >= 0
                 /\ record.iteration_count = 0 => n = 0

\* the generator failed in round 2: the failed record counts two rounds and
\* holds the one verdict of round 1
C28_Witness ==
    /\ pc = "done"
    /\ ~result.success
    /\ result.report.status = "failed"
    /\ result.report.iteration_count = 2
    /\ Len(result.report.validation_history) = 1
    /\ Len(calls.generate) = 2

\* C29: the record persisted under the run's id is the record returned to the
\* caller: the same status, content, iteration_count and validation_history
\* and the same pdf_path and has_pdf
C29_PersistedIsReturned ==
    pc = "done" => store = result.report

====
